---- MODULE Spec2Model ----
(***************************************************************************)
(* Model of datamodel/high/base/schema.go: NewSchema builds a high-level   *)
(* Schema from a low-level one. It copies and normalises the scalar        *)
(* fields, then starts one goroutine per property (buildProps) and one     *)
(* collector goroutine per present composition array (buildOutSchema),     *)
(* which itself starts one goroutine per entry (buildSchemaChild), waits   *)
(* for completion signals on two unbuffered channels and finally assigns   *)
(* the five composition slices onto the Schema.                            *)
(*                                                                         *)
(* Goroutines are modelled as processes whose steps are the blocking       *)
(* points of the code (channel rendezvous, Lock, Unlock). Starting a       *)
(* goroutine is invisible to every other goroutine until the started one   *)
(* communicates, so a `go` loop is folded into the step that contains it.  *)
(***************************************************************************)
EXTENDS Integers, Sequences, FiniteSets, TLC

\* ---------------------------------------------------------------- bounds
\* Largest number of goroutines one call of NewSchema starts: one per
\* property, one per present composition array and one per composition entry.
MaxGoroutines == 5
\* Largest number of values of a list-form type.
MaxTypes == 2

\* ---------------------------------------------------------------- inputs
\* The five composition arrays, in the order NewSchema dispatches them.
DispatchOrder == <<"AllOf", "AnyOf", "OneOf", "Not", "Items">>
\* The order in which NewSchema assigns them onto the Schema.
JoinOrder == <<"OneOf", "AnyOf", "AllOf", "Items", "Not">>
Arrays == {DispatchOrder[i] : i \in 1..5}

\* Property names; a low-level properties map has distinct names.
KeyNames == <<"k1", "k2", "k3", "k4", "k5", "k6">>
Keys(n) == {KeyNames[i] : i \in 1..n}

\* What a low-level reference to a nested schema may hold: nothing (the
\* reference is empty) or the schema being built (a cycle). NewSchema never
\* looks at the value, so one schema's entries alternate between the two,
\* starting with either.
LowValues == {"nil", "self"}
Other(v) == IF v = "nil" THEN "self" ELSE "nil"
ValueAt(first, i) == IF i % 2 = 1 THEN first ELSE Other(first)
TypeNames == {"string", "null"}
Numbers == {0, 5}

\* The zero value of a Go slice (nil) and of a Go map reference.
NilSlice == [nil |-> TRUE, elems |-> <<>>]
Slice(seq) == [nil |-> FALSE, elems |-> seq]
\* s.Properties is a reference: nil, or the map made at line 183.
NilMap == "nil"
PropsMap == "props"
EmptyMap == [k \in {} |-> NilSlice]
GoAppend(s, x) == Slice(Append(s.elems, x))
MapPut(m, k, v) == [x \in DOMAIN m \cup {k} |-> IF x = k THEN v ELSE m[x]]

\* low.NodeReference.IsEmpty: the field is absent from the document.
IsEmpty(ref) == ~ref.present
\* low.SchemaDynamicValue.IsA / IsB: which variant of a union is populated.
IsA(dyn) == dyn.N = 0
IsB(dyn) == dyn.N = 1

RECURSIVE SumLen(_, _)
SumLen(f, i) == IF i = 0 THEN 0
                ELSE (IF f[DispatchOrder[i]] < 0 THEN 0 ELSE f[DispatchOrder[i]])
                     + SumLen(f, i - 1)

\* Shapes of the composition arrays: -1 is an absent array, 0 a present
\* array without entries.
Goroutines(n, f) == n + Cardinality({a \in Arrays : f[a] >= 0}) + SumLen(f, 5)
Shapes == {<<n, f>> \in (0..MaxGoroutines) \X [Arrays -> -1..MaxGoroutines] :
             Goroutines(n, f) <= MaxGoroutines}

SeqsUpTo(S, n) == UNION {[1..m -> S] : m \in 0..n}

\* The variants of the type union: absent, a single string, a list.
TypeInputs ==
    {[present |-> FALSE, N |-> 0, A |-> "", B |-> <<>>]}
    \cup {[present |-> TRUE, N |-> 0, A |-> t, B |-> <<>>] : t \in TypeNames}
    \cup {[present |-> TRUE, N |-> 1, A |-> "", B |-> [i \in DOMAIN l |-> [Value |-> l[i]]]] :
             l \in SeqsUpTo(TypeNames, MaxTypes)}
\* The variants of an exclusivity union: absent, a boolean, a number.
ExclusiveInputs ==
    {[present |-> FALSE, N |-> 0, A |-> FALSE, B |-> 0]}
    \cup {[present |-> TRUE, N |-> 0, A |-> b, B |-> 0] : b \in BOOLEAN}
    \cup {[present |-> TRUE, N |-> 1, A |-> FALSE, B |-> n] : n \in Numbers}

LowArray(f, first, a) ==
    [present |-> f[a] >= 0,
     Value |-> [i \in 1..(IF f[a] < 0 THEN 0 ELSE f[a]) |->
                  [ValueNode |-> <<a, i>>, Value |-> ValueAt(first, i)]]]
LowProperties(n, first) ==
    [k \in Keys(n) |->
       [key |-> [Value |-> k, KeyNode |-> <<"key", k>>],
        value |-> [Value |-> ValueAt(first, CHOOSE i \in 1..n : KeyNames[i] = k),
                   ValueNode |-> <<"value", k>>]]]

VARIABLES
    schema,            \* the low-level schema NewSchema is called on
    pc,                \* where the orchestrating call is
    S,                 \* the Schema being built (s)
    props,             \* the map made at line 183, shared by the property units
    bufs,              \* the locals allOf, oneOf, anyOf, not, items
    plock,             \* who holds plock: "free" or a property name
    propUnit,          \* per property: where its buildProps goroutine is
    coll,              \* per array: where its buildOutSchema goroutine is
    j,                 \* per array: the collector's count of received proxies
    child,             \* per array and index: where its buildSchemaChild goroutine is
    completeChildren,  \* signals received from polyCompletedChan
    completedProps,    \* signals received from propsChan
    ji,                \* index into JoinOrder of the next assignment
    call,              \* 1 in the first call of NewSchema, 2 in a second one
    prev,              \* the structural fields the first call returned
    writes,            \* per structural field of s: how often it has been assigned
    errChan            \* the number of values sent on errChan

vars == <<schema, pc, S, props, bufs, plock, propUnit, coll, j, child,
          completeChildren, completedProps, ji, call, prev, writes, errChan>>

\* The structural fields of a Schema.
Structural == Arrays \cup {"Properties"}

\* new(Schema): every field has its zero value.
NewSchemaStruct ==
    [Type |-> NilSlice,
     ExclusiveMaximumBool |-> FALSE, ExclusiveMaximum |-> 0,
     ExclusiveMinimumBool |-> FALSE, ExclusiveMinimum |-> 0,
     Properties |-> NilMap,
     AllOf |-> NilSlice, OneOf |-> NilSlice, AnyOf |-> NilSlice,
     Not |-> NilSlice, Items |-> NilSlice]

NoResult == [Properties |-> [nil |-> TRUE, entries |-> EmptyMap], AllOf |-> NilSlice, OneOf |-> NilSlice,
             AnyOf |-> NilSlice, Not |-> NilSlice, Items |-> NilSlice]

Fresh(sch) ==
    /\ schema = sch
    /\ pc = "start"
    /\ S = NewSchemaStruct
    /\ props = EmptyMap
    /\ bufs = [a \in Arrays |-> NilSlice]
    /\ plock = "free"
    /\ propUnit = [k \in DOMAIN sch.Properties |-> "none"]
    /\ coll = [a \in Arrays |-> "none"]
    /\ j = [a \in Arrays |-> 0]
    /\ child = [a \in Arrays |-> [i \in DOMAIN sch[a].Value |-> "none"]]
    /\ completeChildren = 0
    /\ completedProps = 0
    /\ ji = 1
    /\ writes = [f \in Structural |-> 0]
    /\ errChan = 0

AbsentUnion == [present |-> FALSE, N |-> 0, A |-> FALSE, B |-> 0]
AbsentType == [present |-> FALSE, N |-> 0, A |-> "", B |-> <<>>]

\* Schemas whose structure varies and whose union fields are absent.
StructuralInputs ==
    {[Type |-> AbsentType, ExclusiveMaximum |-> AbsentUnion, ExclusiveMinimum |-> AbsentUnion,
      Properties |-> LowProperties(nf[1], first),
      AllOf |-> LowArray(nf[2], first, "AllOf"), AnyOf |-> LowArray(nf[2], first, "AnyOf"),
      OneOf |-> LowArray(nf[2], first, "OneOf"), Not |-> LowArray(nf[2], first, "Not"),
      Items |-> LowArray(nf[2], first, "Items")] :
       <<nf, first>> \in Shapes \X LowValues}

\* Schemas without structure whose union fields vary.
ScalarInputs ==
    {[Type |-> t, ExclusiveMaximum |-> emax, ExclusiveMinimum |-> emin,
      Properties |-> LowProperties(0, "nil"),
      AllOf |-> [present |-> FALSE, Value |-> <<>>], AnyOf |-> [present |-> FALSE, Value |-> <<>>],
      OneOf |-> [present |-> FALSE, Value |-> <<>>], Not |-> [present |-> FALSE, Value |-> <<>>],
      Items |-> [present |-> FALSE, Value |-> <<>>]] :
       <<t, emax, emin>> \in TypeInputs \X ExclusiveInputs \X ExclusiveInputs}

Init ==
    /\ \E sch \in StructuralInputs \cup ScalarInputs : Fresh(sch)
    /\ call = 1
    /\ prev = NoResult

\* ------------------------------------------------- the scalar fields
RECURSIVE AppendTypes(_, _, _)
\* The loop of lines 96-98 from index i on.
AppendTypes(s, B, i) ==
    IF i > Len(B) THEN s ELSE AppendTypes(GoAppend(s, B[i].Value), B, i + 1)

\* Mutant: the list form of the type is not handled.
NormalizeTypeSingleOnly(t) ==
    IF ~IsEmpty(t) /\ IsA(t) THEN Slice(<<t.A>>) ELSE NilSlice

\* Lines 90-99: s.Type from the type union.
NormalizeType(t) ==
    LET single == IF ~IsEmpty(t) /\ IsA(t) THEN Slice(<<t.A>>) ELSE NilSlice
    IN  IF ~IsEmpty(t) /\ IsB(t) THEN AppendTypes(single, t.B, 1) ELSE single

\* Mutant: the union is collapsed, a numeric bound counts as exclusive.
ExclusiveBoolCollapsed(dyn) ==
    IF ~IsEmpty(dyn) /\ IsA(dyn) THEN dyn.A ELSE ~IsEmpty(dyn)

\* Lines 65-68 and 73-76: the boolean field of an exclusivity union.
ExclusiveBool(dyn) == IF ~IsEmpty(dyn) /\ IsA(dyn) THEN dyn.A ELSE FALSE
\* Lines 69-72 and 77-80: the numeric field of an exclusivity union.
ExclusiveNumber(dyn) == IF ~IsEmpty(dyn) /\ IsB(dyn) THEN dyn.B ELSE 0

\* Lines 59-128: the Schema is allocated and its scalar fields are copied.
NewSchemaScalars ==
    /\ pc = "start"
    /\ S' = [S EXCEPT !.Type = NormalizeType(schema.Type),
                      !.ExclusiveMaximumBool = ExclusiveBool(schema.ExclusiveMaximum),
                      !.ExclusiveMaximum = ExclusiveNumber(schema.ExclusiveMaximum),
                      !.ExclusiveMinimumBool = ExclusiveBool(schema.ExclusiveMinimum),
                      !.ExclusiveMinimum = ExclusiveNumber(schema.ExclusiveMinimum)]
    /\ pc' = "dispatch"
    /\ UNCHANGED <<schema, props, bufs, plock, propUnit, coll, j, child,
                   completeChildren, completedProps, ji, call, prev, writes, errChan>>

\* ------------------------------------------------- the orchestrating call
TotalProps == Cardinality(DOMAIN schema.Properties)
TotalChildren == Len(schema.AllOf.Value) + Len(schema.OneOf.Value) + Len(schema.AnyOf.Value)
                 + Len(schema.Items.Value) + Len(schema.Not.Value)

\* Mutant: the await loop is entered whatever the totals.
ShouldAwaitAlways(totalProps, totalChildren) == TRUE

\* Line 214: whether NewSchema enters the await loop.
ShouldAwait(totalProps, totalChildren) == totalProps + totalChildren > 0

\* Lines 220 and 225: the exit test of the await loop.
AllDone(doneProps, doneChildren) ==
    TotalProps = doneProps /\ TotalChildren = doneChildren

\* Lines 135-214: the channels and the map are made, one buildProps goroutine
\* is started per property and one buildOutSchema goroutine per array that is
\* not empty; then the totals are taken and the await loop is entered or skipped.
Dispatch ==
    /\ pc = "dispatch"
    /\ props' = EmptyMap
    /\ propUnit' = [k \in DOMAIN schema.Properties |-> "ready"]
    /\ coll' = [a \in Arrays |-> IF ~IsEmpty(schema[a]) THEN "ready" ELSE "none"]
    /\ completeChildren' = 0
    /\ completedProps' = 0
    /\ errChan' = 0
    /\ pc' = IF ShouldAwait(TotalProps, TotalChildren) THEN "await" ELSE "join"
    /\ UNCHANGED <<schema, S, bufs, plock, j, child, ji, call, prev, writes>>

\* Lines 218-222: a collector's signal is received from polyCompletedChan.
AwaitPoly(a) ==
    /\ pc = "await"
    /\ coll[a] = "send"
    /\ coll' = [coll EXCEPT ![a] = "done"]
    /\ completeChildren' = completeChildren + 1
    /\ pc' = IF AllDone(completedProps, completeChildren + 1) THEN "join" ELSE "await"
    /\ UNCHANGED <<schema, S, props, bufs, plock, propUnit, j, child,
                   completedProps, ji, call, prev, writes, errChan>>

\* Lines 223-227: a property unit's signal is received from propsChan; the
\* unit goes on to its deferred Unlock.
AwaitProps(k) ==
    /\ pc = "await"
    /\ propUnit[k] = "send"
    /\ propUnit' = [propUnit EXCEPT ![k] = "unlock"]
    /\ completedProps' = completedProps + 1
    /\ pc' = IF AllDone(completedProps + 1, completeChildren) THEN "join" ELSE "await"
    /\ UNCHANGED <<schema, S, props, bufs, plock, coll, j, child,
                   completeChildren, ji, call, prev, writes, errChan>>

\* Lines 231-235, one assignment at a time: the local slice is copied onto
\* the Schema as it is at that moment.
Join ==
    /\ pc = "join"
    /\ ji <= 5
    /\ S' = [S EXCEPT ![JoinOrder[ji]] = bufs[JoinOrder[ji]]]
    /\ ji' = ji + 1
    /\ writes' = [writes EXCEPT ![JoinOrder[ji]] = @ + 1]
    /\ UNCHANGED <<schema, pc, props, bufs, plock, propUnit, coll, j, child,
                   completeChildren, completedProps, call, prev, errChan>>

\* Mutant: the return waits until every goroutine has ended.
ReturnWhenUnitsEnded ==
    /\ pc = "join"
    /\ ji = 6
    /\ \A k \in DOMAIN propUnit : propUnit[k] = "done"
    /\ \A a \in Arrays : coll[a] \in {"none", "done"}
    /\ pc' = "returned"
    /\ UNCHANGED <<schema, S, props, bufs, plock, propUnit, coll, j, child,
                   completeChildren, completedProps, ji, call, prev, writes, errChan>>

\* Line 237.
Return ==
    /\ pc = "join"
    /\ ji = 6
    /\ pc' = "returned"
    /\ UNCHANGED <<schema, S, props, bufs, plock, propUnit, coll, j, child,
                   completeChildren, completedProps, ji, call, prev, writes, errChan>>

\* ------------------------------------------------- the property units
\* Mutant: the proxy of a property does not take the reference's value.
PropProxyNoValue(k, v) ==
    [schema |-> [Value |-> "nil", KeyNode |-> k.KeyNode, ValueNode |-> v.ValueNode],
     rendered |-> FALSE]

\* Lines 173-178: the proxy of a property. Only its schema field is set: no
\* Schema has been built for it.
PropProxy(k, v) ==
    [schema |-> [Value |-> v.Value, KeyNode |-> k.KeyNode, ValueNode |-> v.ValueNode],
     rendered |-> FALSE]

\* Mutant: the unit goes on without waiting for the lock.
PropLockNoWait(k) ==
    /\ propUnit[k] = "ready"
    /\ plock' = k
    /\ propUnit' = [propUnit EXCEPT ![k] = "locked"]
    /\ UNCHANGED <<schema, pc, S, props, bufs, coll, j, child,
                   completeChildren, completedProps, ji, call, prev, writes, errChan>>

\* Line 172: plock.Lock() blocks while another unit holds the lock.
PropLock(k) ==
    /\ propUnit[k] = "ready"
    /\ plock = "free"
    /\ plock' = k
    /\ propUnit' = [propUnit EXCEPT ![k] = "locked"]
    /\ UNCHANGED <<schema, pc, S, props, bufs, coll, j, child,
                   completeChildren, completedProps, ji, call, prev, writes, errChan>>

\* Lines 173-179: the proxy is stored under the property's name and the map
\* is assigned to s.Properties.
PropInsert(k) ==
    /\ propUnit[k] = "locked"
    /\ props' = MapPut(props, schema.Properties[k].key.Value,
                       PropProxy(schema.Properties[k].key, schema.Properties[k].value))
    /\ S' = [S EXCEPT !.Properties = PropsMap]
    /\ propUnit' = [propUnit EXCEPT ![k] = "send"]
    /\ writes' = [writes EXCEPT !["Properties"] = @ + 1]
    /\ UNCHANGED <<schema, pc, bufs, plock, coll, j, child,
                   completeChildren, completedProps, ji, call, prev, errChan>>

\* Line 171, run when line 180 has sent: the deferred plock.Unlock().
PropUnlock(k) ==
    /\ propUnit[k] = "unlock"
    /\ plock' = "free"
    /\ propUnit' = [propUnit EXCEPT ![k] = "done"]
    /\ UNCHANGED <<schema, pc, S, props, bufs, coll, j, child,
                   completeChildren, completedProps, ji, call, prev, writes, errChan>>

\* ------------------------------------------------- the composition units
\* Mutant: the nested schema is built when its proxy is made.
ChildProxyRendered(sch) ==
    [schema |-> [Value |-> sch.Value, KeyNode |-> "nil", ValueNode |-> sch.ValueNode],
     rendered |-> TRUE]

\* Lines 146-149: the proxy of a composition entry.
ChildProxy(sch) ==
    [schema |-> [Value |-> sch.Value, KeyNode |-> "nil", ValueNode |-> sch.ValueNode],
     rendered |-> FALSE]

\* Line 157: where the collector is once it has received n of total proxies.
AfterLoopTest(n, total) == IF n < total THEN "collect" ELSE "send"

\* Lines 142-157: the collector starts one buildSchemaChild goroutine per
\* entry, each of which builds its proxy and offers it on bChan (line 150),
\* and reaches its loop.
CollStart(a) ==
    /\ coll[a] = "ready"
    /\ child' = [child EXCEPT ![a] = [i \in DOMAIN schema[a].Value |-> "send"]]
    /\ j' = [j EXCEPT ![a] = 0]
    /\ coll' = [coll EXCEPT ![a] = AfterLoopTest(0, Len(schema[a].Value))]
    /\ UNCHANGED <<schema, pc, S, props, bufs, plock, propUnit,
                   completeChildren, completedProps, ji, call, prev, writes, errChan>>

\* Mutant: the collector reports an entry whose reference is empty on e.
CollRecvReportsEmpty(a, i) ==
    /\ coll[a] = "collect"
    /\ child[a][i] = "send"
    /\ child' = [child EXCEPT ![a][i] = "done"]
    /\ j' = [j EXCEPT ![a] = j[a] + 1]
    /\ bufs' = [bufs EXCEPT ![a] = GoAppend(bufs[a], ChildProxy(schema[a].Value[i]))]
    /\ coll' = [coll EXCEPT ![a] = AfterLoopTest(j[a] + 1, Len(schema[a].Value))]
    /\ errChan' = errChan + (IF schema[a].Value[i].Value = "nil" THEN 1 ELSE 0)
    /\ UNCHANGED <<schema, pc, S, props, plock, propUnit,
                   completeChildren, completedProps, ji, call, prev, writes>>

\* Lines 150 and 158-162: the collector receives the proxy child i offers and
\* appends it to the array's local slice.
CollRecv(a, i) ==
    /\ coll[a] = "collect"
    /\ child[a][i] = "send"
    /\ child' = [child EXCEPT ![a][i] = "done"]
    /\ j' = [j EXCEPT ![a] = j[a] + 1]
    /\ bufs' = [bufs EXCEPT ![a] = GoAppend(bufs[a], ChildProxy(schema[a].Value[i]))]
    /\ coll' = [coll EXCEPT ![a] = AfterLoopTest(j[a] + 1, Len(schema[a].Value))]
    /\ UNCHANGED <<schema, pc, S, props, plock, propUnit,
                   completeChildren, completedProps, ji, call, prev, writes, errChan>>

\* ------------------------------------------------- specifications
Next ==
    \/ NewSchemaScalars
    \/ Dispatch
    \/ \E a \in Arrays : AwaitPoly(a)
    \/ \E k \in DOMAIN propUnit : AwaitProps(k)
    \/ Join
    \/ Return
    \/ \E k \in DOMAIN propUnit : PropLock(k)
    \/ \E k \in DOMAIN propUnit : PropInsert(k)
    \/ \E k \in DOMAIN propUnit : PropUnlock(k)
    \/ \E a \in Arrays : CollStart(a)
    \/ \E a \in Arrays : \E i \in DOMAIN child[a] : CollRecv(a, i)

Spec == Init /\ [][Next]_vars

\* Every goroutine that can take a step eventually takes one.
FairSpec == Spec /\ WF_vars(Next)

\* ------------------------------------------------- what a caller sees
\* The map s.Properties refers to: nil until a property unit has run line 179.
SProperties ==
    [nil |-> S.Properties = NilMap,
     entries |-> IF S.Properties = NilMap THEN EmptyMap ELSE props]

\* The structural fields of the Schema.
Result ==
    [Properties |-> SProperties, AllOf |-> S.AllOf, OneOf |-> S.OneOf,
     AnyOf |-> S.AnyOf, Not |-> S.Not, Items |-> S.Items]

\* NewSchema is called again on the same low-level schema, once the first
\* call has returned; what the first call returned is kept for comparison.
\* Goroutines the first call left behind share nothing with the second.
SecondCall ==
    /\ pc = "returned"
    /\ call = 1
    /\ call' = 2
    /\ prev' = Result
    /\ pc' = "start"
    /\ S' = NewSchemaStruct
    /\ props' = EmptyMap
    /\ bufs' = [a \in Arrays |-> NilSlice]
    /\ plock' = "free"
    /\ propUnit' = [k \in DOMAIN schema.Properties |-> "none"]
    /\ coll' = [a \in Arrays |-> "none"]
    /\ j' = [a \in Arrays |-> 0]
    /\ child' = [a \in Arrays |-> [i \in DOMAIN schema[a].Value |-> "none"]]
    /\ completeChildren' = 0
    /\ completedProps' = 0
    /\ ji' = 1
    /\ writes' = [f \in Structural |-> 0]
    /\ errChan' = 0
    /\ UNCHANGED schema

NextTwice ==
    \/ Next
    \/ SecondCall

\* Two calls of NewSchema on one low-level schema, one after the other.
SpecTwice == Init /\ [][NextTwice]_vars

\* ------------------------------------------------- claims
Returned == pc = "returned"

\* Proxy p wraps the low-level reference ref.
Wraps(p, ref) == p.schema.Value = ref.Value /\ p.schema.ValueNode = ref.ValueNode

\* The proxies of S's sequence a that wrap entry i of the source array a.
Holders(a, i) == {m \in DOMAIN S[a].elems : Wraps(S[a].elems[m], schema[a].Value[i])}

\* The index in the source array a of the entry proxy p wraps.
SourceIndex(a, p) ==
    CHOOSE i \in DOMAIN schema[a].Value : schema[a].Value[i].ValueNode = p.schema.ValueNode

\* C1: under fair scheduling every call of NewSchema eventually returns,
\* whatever the number of properties and the lengths of the five arrays.
C1_NewSchemaReturns == <>Returned

\* C2: when NewSchema returns, Properties holds an entry for every source
\* property and each composition sequence holds every entry of its source.
C2_FullyBuilt ==
    Returned =>
        /\ \A k \in DOMAIN schema.Properties :
               schema.Properties[k].key.Value \in DOMAIN SProperties.entries
        /\ \A a \in Arrays : \A i \in DOMAIN schema[a].Value : Holders(a, i) # {}

\* C3: each composition sequence of the returned Schema lists its proxies in
\* the order of the entries of its source array.
C3_SourceOrder ==
    Returned =>
        \A a \in Arrays : \A m, n \in DOMAIN S[a].elems :
            m < n => SourceIndex(a, S[a].elems[m]) < SourceIndex(a, S[a].elems[n])

\* C4: when NewSchema returns, Properties has as many entries as the source
\* map, and each composition sequence has the length of its source array and
\* exactly one proxy per source entry.
C4_NoLossNoDuplication ==
    Returned =>
        /\ Cardinality(DOMAIN SProperties.entries) = Cardinality(DOMAIN schema.Properties)
        /\ \A a \in Arrays :
               /\ Len(S[a].elems) = Len(schema[a].Value)
               /\ \A i \in DOMAIN schema[a].Value : Cardinality(Holders(a, i)) = 1

\* C5: when NewSchema returns, the keys of Properties are the names of the
\* source properties, and the proxy under each name wraps the low-level value
\* of the source entry with that name.
C5_PropertiesMatchSource ==
    Returned =>
        /\ DOMAIN SProperties.entries =
               {schema.Properties[k].key.Value : k \in DOMAIN schema.Properties}
        /\ \A k \in DOMAIN schema.Properties :
               Wraps(SProperties.entries[schema.Properties[k].key.Value],
                     schema.Properties[k].value)

C5_Witness ==
    /\ Returned
    /\ \E k1, k2 \in DOMAIN schema.Properties :
           /\ schema.Properties[k1].value.Value = "nil"
           /\ schema.Properties[k2].value.Value = "self"

\* C6: with no properties and no composition entries NewSchema never enters
\* the await loop and receives on no channel: until it has returned, a step
\* of it that is not a receive is always possible.
C6_EmptySkipsAwait ==
    TotalProps + TotalChildren = 0 =>
        /\ pc # "await"
        /\ completeChildren = 0
        /\ completedProps = 0
        /\ ~Returned => ENABLED (NewSchemaScalars \/ Dispatch \/ Join \/ Return)

C6_Witness ==
    /\ TotalProps + TotalChildren = 0
    /\ Returned
    /\ \E a \in Arrays : coll[a] = "send"

\* C7: with no properties and no composition entries the returned Schema's
\* Properties map and five composition sequences are set, not nil.
C7_EmptyContainersSet ==
    (Returned /\ TotalProps + TotalChildren = 0) =>
        /\ ~SProperties.nil
        /\ \A a \in Arrays : ~S[a].nil

\* Every proxy NewSchema has made so far.
AllProxies ==
    {props[k] : k \in DOMAIN props}
    \cup UNION {{bufs[a].elems[m] : m \in DOMAIN bufs[a].elems} : a \in Arrays}
    \cup UNION {{S[a].elems[m] : m \in DOMAIN S[a].elems} : a \in Arrays}

C9_Deterministic == (call = 2 /\ Returned) => Result = prev

\* C10: a single-string type t gives Type = [t], a list-form type gives its
\* values in order, an absent type leaves Type empty.
C10_TypeNormalized ==
    pc # "start" =>
        /\ (schema.Type.present /\ schema.Type.N = 0) =>
               (~S.Type.nil /\ S.Type.elems = <<schema.Type.A>>)
        /\ (schema.Type.present /\ schema.Type.N = 1) =>
               S.Type.elems = [i \in DOMAIN schema.Type.B |-> schema.Type.B[i].Value]
        /\ ~schema.Type.present => S.Type = NilSlice

C10_Witness ==
    /\ Returned
    /\ schema.Type.present
    /\ schema.Type.N = 1
    /\ Len(S.Type.elems) = 2
    /\ S.Type.elems[1] # S.Type.elems[2]

\* C11: for exclusiveMaximum and exclusiveMinimum alike, a boolean source
\* sets the boolean field and leaves the numeric field 0, a numeric source
\* sets the numeric field and leaves the boolean field false, an absent
\* source leaves both at their zero values.
C11_ExclusiveNotCollapsed ==
    pc # "start" =>
        \A u \in {<<schema.ExclusiveMaximum, S.ExclusiveMaximumBool, S.ExclusiveMaximum>>,
                  <<schema.ExclusiveMinimum, S.ExclusiveMinimumBool, S.ExclusiveMinimum>>} :
            /\ (u[1].present /\ u[1].N = 0) => (u[2] = u[1].A /\ u[3] = 0)
            /\ (u[1].present /\ u[1].N = 1) => (u[3] = u[1].B /\ u[2] = FALSE)
            /\ ~u[1].present => (u[2] = FALSE /\ u[3] = 0)

C11_Witness ==
    /\ Returned
    /\ schema.ExclusiveMaximum.present /\ schema.ExclusiveMaximum.N = 0
    /\ S.ExclusiveMaximumBool
    /\ schema.ExclusiveMinimum.present /\ schema.ExclusiveMinimum.N = 1
    /\ S.ExclusiveMinimum = 5

\* C12: once an execution is over, the number of completion signals NewSchema
\* has received is the expected total, the number of properties plus the
\* number of entries of the five arrays.
C12_SignalsEqualTotal ==
    ENABLED Next \/ completedProps + completeChildren = TotalProps + TotalChildren

\* Every goroutine NewSchema has started has reached its end.
AllUnitsEnded ==
    /\ \A k \in DOMAIN propUnit : propUnit[k] = "done"
    /\ \A a \in Arrays : ~IsEmpty(schema[a]) => coll[a] = "done"
    /\ \A a \in Arrays : \A i \in DOMAIN child[a] : child[a][i] = "done"

\* C13: an execution is over only when every dispatched unit has reached its
\* end: none is left blocked on a channel.
C13_UnitsComplete == AllUnitsEnded \/ ENABLED Next

\* The property units between Lock and Unlock.
InCritical == {k \in DOMAIN propUnit : propUnit[k] \in {"locked", "send", "unlock"}}

\* C14: at most one property unit is between acquiring and releasing the
\* lock, and it is the one that holds it.
C14_MutualExclusion ==
    /\ Cardinality(InCritical) <= 1
    /\ InCritical = (IF plock = "free" THEN {} ELSE {plock})

C14_Witness ==
    \E k1, k2 \in DOMAIN propUnit :
        /\ k1 # k2
        /\ propUnit[k1] = "locked"
        /\ propUnit[k2] = "ready"

\* C15: no dispatched unit is ever blocked: whatever it is about to do, on a
\* channel or on the lock, it can do at once.
C15_UnitsNeverBlocked ==
    /\ \A k \in DOMAIN propUnit :
           /\ propUnit[k] = "ready" => ENABLED PropLock(k)
           /\ propUnit[k] = "send" => ENABLED AwaitProps(k)
    /\ \A a \in Arrays :
           /\ coll[a] = "collect" => \E i \in DOMAIN child[a] : ENABLED CollRecv(a, i)
           /\ coll[a] = "send" => ENABLED AwaitPoly(a)
           /\ \A i \in DOMAIN child[a] : child[a][i] = "send" => ENABLED CollRecv(a, i)

\* C15 as amended: the orchestrating call waits only in the await loop, and a
\* dispatched unit waits only at the lock or at a channel: its insert, its
\* unlock and the start of a collector never wait.
C15_WaitsOnlyAtLockAndChannels ==
    /\ pc \notin {"await", "returned"} =>
           ENABLED (NewSchemaScalars \/ Dispatch \/ Join \/ Return)
    /\ \A k \in DOMAIN propUnit :
           /\ propUnit[k] = "locked" => ENABLED PropInsert(k)
           /\ propUnit[k] = "unlock" => ENABLED PropUnlock(k)
    /\ \A a \in Arrays : coll[a] = "ready" => ENABLED CollStart(a)

C15_Witness ==
    /\ pc = "await"
    /\ \E k \in DOMAIN propUnit : propUnit[k] = "ready" /\ plock # "free"
    /\ \E a \in Arrays : coll[a] = "collect"

\* C16: each structural field is assigned once per call, and not before the
\* await phase is over.
C16_AssignedOnceAfterAwait ==
    /\ pc \in {"start", "dispatch", "await"} => \A f \in Structural : writes[f] = 0
    /\ Returned => \A f \in Structural : writes[f] = 1

\* C17: once NewSchema has returned, no step changes the Schema's structural
\* fields, the properties map or a composition buffer.
C17_StableAfterReturn ==
    [][Returned => (Result' = Result /\ props' = props /\ bufs' = bufs)]_vars

\* C18: on return the containers are dense, also for entries whose low-level
\* reference is empty: each has its proxy, which holds the emptiness.
C18_Dense ==
    Returned =>
        /\ \A k \in DOMAIN schema.Properties :
               schema.Properties[k].value.Value = "nil" =>
                   /\ schema.Properties[k].key.Value \in DOMAIN SProperties.entries
                   /\ SProperties.entries[schema.Properties[k].key.Value].schema.Value = "nil"
        /\ \A a \in Arrays : \A i \in DOMAIN schema[a].Value :
               schema[a].Value[i].Value = "nil" => Holders(a, i) # {}

\* C19: nothing is ever sent on errChan.
C19_ErrChanUnused == errChan = 0

C19_Witness ==
    /\ Returned
    /\ \E k \in DOMAIN propUnit : propUnit[k] = "done"
    /\ \E a \in Arrays : \E i \in DOMAIN child[a] :
           child[a][i] = "done" /\ schema[a].Value[i].Value = "nil"

\* C20: the completion counters never exceed their totals.
C20_CountersWithinTotals ==
    /\ completedProps <= TotalProps
    /\ completeChildren <= TotalChildren

====
